---- MODULE Spec2Model ----
(***************************************************************************)
(* Model of shared/hsm_ux.py: the approval of an HSM policy                *)
(* (start_hsm_approval, ApproveHSMPolicy.interact) and the locked          *)
(* interaction loop that replaces the menu once the policy is active       *)
(* (hsmUxInteraction.interact).                                            *)
(*                                                                         *)
(* The device runs one cooperative task.  A step of the model is the code  *)
(* between two suspension points (an await) or between two calls the       *)
(* claims order; results of the collaborators (stories, numpad, random     *)
(* source, policy, local-authentication subsystem) are inputs.             *)
(***************************************************************************)
EXTENDS Integers, Sequences, FiniteSets, TLC

\* ------------------------------------------------------------------ bounds
\* longest transfer buffer handed to start_hsm_approval
MaxSfLen == 2
\* deepest UI stack the menu path may build by pushing controllers
MaxStack == 3
\* calls of policy.activate that are recorded
MaxActivate == 2

\* --------------------------------------------------------------- constants
\* hsm.LOCAL_PIN_LENGTH, the "6 digits" of the loop
LOCAL_PIN_LENGTH == 6
\* len(cylon)
CylonLen == 53
\* the argument of tcc.random.uniform
UniformArg == 5

\* '12346'
ConfirmChars == <<"1", "2", "3", "4", "6">>

\* numpad.ABORT_KEY
ABORT_KEY == "ABORT"

\* what a story can hand back: OK, X, or one of the keys of the keypad
Gestures == {<<"y">>, <<"x">>, <<"1">>, <<"2">>, <<"3">>, <<"4">>, <<"6">>}

\* what numpad.get_nowait can hand back: '' (key up), X, OK, abort, a digit,
\* and a character that is none of these (the loop does not choose its source)
Keys == {<<>>, <<"x">>, <<"y">>, <<ABORT_KEY>>, <<"1">>, <<"*">>}

NoResult == [kind |-> "none", ch |-> <<>>]
StoryResults == [kind : {"key"}, ch : Gestures]
                  \cup {[kind |-> "abort", ch |-> <<>>], [kind |-> "error", ch |-> <<>>]}
PollResults == [kind : {"key"}, ch : Keys]
                  \cup {[kind |-> "empty", ch |-> <<>>], [kind |-> "error", ch |-> <<>>]}

VARIABLES
    active_request,   \* UserAuthorizedAction.active_request: "None", "ar", "other"
    other_done,       \* ux_done of the other pending action, when it is in the slot
    ux_stack,         \* the_ux: the stack of UI objects, top last
    ar,               \* the ApproveHSMPolicy object
    ar_pc,            \* position inside ApproveHSMPolicy.interact
    ar_caller,        \* who awaits it: "ux" (the UI driver) or "loop"
    ar_g1,            \* result of the first story
    ar_g2,            \* result of the second story
    confirm_char,     \* the token, "" while none is selected
    ar_exc,           \* where this call of interact caught an exception
    ar_events,        \* what this call of interact has done, in order
    activate_calls,   \* arguments of policy.activate, in order
    hsm_active,       \* main.hsm_active is set
    start_out,        \* how the last call of start_hsm_approval ended
    hsm_pc,           \* position inside hsmUxInteraction.interact
    digits,           \* self.digits
    phase,            \* self.phase
    test_restart,     \* self.test_restart
    hsm_ch,           \* what this iteration's poll returned
    pin_calls,        \* arguments of local_pin_entered in this iteration
    hsm_err,          \* where this iteration raised an error
    hsm_pump          \* what this iteration did about the pending action

vars == <<active_request, other_done, ux_stack, ar, ar_pc, ar_caller, ar_g1, ar_g2,
          confirm_char, ar_exc, ar_events, activate_calls, hsm_active, start_out,
          hsm_pc, digits, phase, test_restart, hsm_ch, pin_calls, hsm_err, hsm_pump>>

approve_vars == <<ar, ar_pc, ar_caller, ar_g1, ar_g2, confirm_char, ar_exc, ar_events>>
loop_vars == <<hsm_pc, digits, phase, test_restart, hsm_ch, pin_calls, hsm_err, hsm_pump>>

Top(s) == IF Len(s) = 0 THEN "none" ELSE s[Len(s)]

\* ApproveHSMPolicy.__init__ on top of UserAuthorizedAction.__init__
NewApprove(new_file) ==
    [exists |-> TRUE, new_file |-> new_file, refused |-> TRUE,
     failed |-> "None", ux_done |-> FALSE]

NoApprove ==
    [exists |-> FALSE, new_file |-> FALSE, refused |-> TRUE,
     failed |-> "None", ux_done |-> FALSE]

NoStart ==
    [outcome |-> "none", error |-> "none", sf_len |-> 0, usb_mode |-> FALSE,
     startup_mode |-> FALSE, text |-> "none", routed |-> "none", had_request |-> FALSE]

Init ==
    /\ active_request = "None"
    /\ other_done = FALSE
    /\ ux_stack = <<"menu">>
    /\ ar = NoApprove
    /\ ar_pc = "idle"
    /\ ar_caller = "ux"
    /\ ar_g1 = NoResult
    /\ ar_g2 = NoResult
    /\ confirm_char = ""
    /\ ar_exc = "none"
    /\ ar_events = <<>>
    /\ activate_calls = <<>>
    /\ hsm_active = FALSE
    /\ start_out = NoStart
    /\ hsm_pc = "off"
    /\ digits = <<>>
    /\ phase = 0
    /\ test_restart = FALSE
    /\ hsm_ch = NoResult
    /\ pin_calls = <<>>
    /\ hsm_err = "none"
    /\ hsm_pump = "none"

\* ------------------------------------------------------ start_hsm_approval
\* UserAuthorizedAction.cleanup(): the process-wide slot is emptied
Cleanup == "None"

\* a slip at line 102: is_new is left True for the persisted file
LoadSource_AlwaysNew(sf_len, sf_text, file) ==
    IF sf_len # 0
      THEN [ok |-> TRUE, text |-> sf_text, is_new |-> TRUE]
      ELSE IF file = "absent"
             THEN [ok |-> FALSE, text |-> "none", is_new |-> TRUE]
             ELSE [ok |-> TRUE, text |-> file, is_new |-> TRUE]

\* lines 91-102: where the text comes from, and whether the policy is new
LoadSource(sf_len, sf_text, file) ==
    IF sf_len # 0
      THEN [ok |-> TRUE, text |-> sf_text, is_new |-> TRUE]
      ELSE IF file = "absent"
             THEN [ok |-> FALSE, text |-> "none", is_new |-> TRUE]
             ELSE [ok |-> TRUE, text |-> file, is_new |-> FALSE]

\* a slip at lines 111-113: an error of HSMPolicy.load is not noticed
ParseOk_JsonOnly(text) == text # "badjson"

\* lines 105-113: ujson.loads and HSMPolicy.load both succeed
ParseOk(text) == text = "valid"

\* a slip at lines 133-139: the USB case pushes like the menu case
Route_AlwaysPush(usb_mode, startup_mode) == IF startup_mode THEN "none" ELSE "push"

\* lines 130-139: how the controller gets into the UI
Route(usb_mode, startup_mode) ==
    IF startup_mode THEN "none" ELSE IF usb_mode THEN "goto" ELSE "push"

\* abort_and_goto(ar) / the_ux.push(ar) / nothing
Routed(stack, how) ==
    CASE how = "goto" -> <<"ar">>
      [] how = "push" -> Append(stack, "ar")
      [] OTHER -> stack

start_hsm_approval(sf_len, usb_mode, startup_mode, sf_text, file) ==
    /\ hsm_pc = "off"
    /\ ~hsm_active
    /\ ar_pc = "idle"
    /\ Len(ux_stack) < MaxStack
    /\ LET src == LoadSource(sf_len, sf_text, file)
           rec == [NoStart EXCEPT !.sf_len = sf_len, !.usb_mode = usb_mode,
                                  !.startup_mode = startup_mode, !.text = src.text,
                                  !.had_request = (active_request # "None")]
       IN IF ~src.ok
            THEN \* raise ValueError("No existing policy")
                 /\ active_request' = Cleanup
                 /\ start_out' = [rec EXCEPT !.outcome = "raised", !.error = "nopolicy"]
                 /\ UNCHANGED <<ar, ux_stack>>
            ELSE IF ~ParseOk(src.text)
                   THEN /\ active_request' = Cleanup
                        /\ start_out' = [rec EXCEPT
                              !.outcome = IF usb_mode THEN "raised" ELSE "displayed",
                              !.error = "invalid"]
                        /\ UNCHANGED <<ar, ux_stack>>
                   ELSE /\ ar' = NewApprove(src.is_new)
                        /\ active_request' = "ar"
                        /\ ux_stack' = Routed(ux_stack, Route(usb_mode, startup_mode))
                        /\ start_out' = [rec EXCEPT !.outcome = "returned",
                                            !.routed = Route(usb_mode, startup_mode)]
    /\ other_done' = FALSE
    /\ UNCHANGED <<ar_pc, ar_caller, ar_g1, ar_g2, confirm_char, ar_exc, ar_events,
                   activate_calls, hsm_active>>
    /\ UNCHANGED loop_vars

Start ==
    \E sf_len \in 0..MaxSfLen, usb_mode \in BOOLEAN, startup_mode \in BOOLEAN,
       sf_text \in {"valid", "badjson", "badpolicy"},
       file \in {"absent", "valid", "badjson", "badpolicy"} :
        start_hsm_approval(sf_len, usb_mode, startup_mode, sf_text, file)

\* another flow of the firmware starts an authorization of its own
InstallOther ==
    /\ \/ hsm_pc = "off" /\ ~hsm_active /\ ar_pc = "idle"
       \/ hsm_pc = "sleep"
    /\ active_request' = "other"
    /\ other_done' = FALSE
    /\ UNCHANGED <<ux_stack, activate_calls, hsm_active, start_out>>
    /\ UNCHANGED approve_vars
    /\ UNCHANGED loop_vars

\* ------------------------------------------------ ApproveHSMPolicy.interact
\* a slip at line 54: only X refuses
Refused1_OnlyX(ch) == ch = <<"x">>

\* line 54
Refused1(ch) == ch # <<"y">>

\* a slip at line 56: the second story for every accepted policy
NeedSecond_Always(refused, new_file) == ~refused

\* line 56
NeedSecond(refused, new_file) == ~refused /\ new_file

\* line 57
PickToken(u) == ConfirmChars[u + 1]

\* a slip at line 64: only X refuses
Refused2_OnlyX(ch, token) == ch = <<"x">>

\* line 64
Refused2(ch, token) == ch # <<token>>

\* a slip at lines 66-69: the handler forgets refused
OnException_KeepRefused(a) == [a EXCEPT !.failed = "Exception"]

\* lines 66-69
OnException(a) == [a EXCEPT !.failed = "Exception", !.refused = TRUE]

\* lines 40-46: up to the first story
ArEnter(caller, explain_out) ==
    /\ ar_caller' = caller
    /\ ar_g1' = NoResult
    /\ ar_g2' = NoResult
    /\ confirm_char' = ""
    /\ IF explain_out = "ok"
         THEN /\ ar' = [ar EXCEPT !.refused = TRUE]
              /\ ar_exc' = "none"
              /\ ar_events' = <<"explain", "story1">>
              /\ ar_pc' = "story1"
         ELSE /\ ar' = OnException([ar EXCEPT !.refused = TRUE])
              /\ ar_exc' = "explain"
              /\ ar_events' = <<"explain">>
              /\ ar_pc' = "finish"

\* the UI driver (or the start-up caller that holds ar) awaits interact()
ArBegin ==
    /\ hsm_pc = "off"
    /\ ar_pc = "idle"
    /\ ar.exists /\ ~ar.ux_done
    /\ Top(ux_stack) = "ar" \/ start_out.startup_mode
    /\ \E explain_out \in {"ok", "raise"} : ArEnter("ux", explain_out)
    /\ start_out' = NoStart
    /\ UNCHANGED <<active_request, other_done, ux_stack, activate_calls, hsm_active>>
    /\ UNCHANGED loop_vars

\* lines 47-60: the first story answers; the token is drawn when one is needed
ArStory1 ==
    /\ ar_pc = "story1"
    /\ \E r \in StoryResults, u \in (0..(UniformArg - 1)) \cup {-1} :
        /\ ar_g1' = r
        /\ IF r.kind = "error"
             THEN /\ ar' = OnException(ar)
                  /\ ar_exc' = "story1"
                  /\ ar_pc' = "finish"
                  /\ UNCHANGED <<confirm_char, ar_events>>
             ELSE LET ch == IF r.kind = "abort" THEN <<"x">> ELSE r.ch
                      refused == Refused1(ch)
                  IN IF NeedSecond(refused, ar.new_file)
                       THEN IF u = -1
                              THEN /\ ar' = OnException([ar EXCEPT !.refused = refused])
                                   /\ ar_exc' = "token"
                                   /\ ar_events' = Append(ar_events, "token")
                                   /\ ar_pc' = "finish"
                                   /\ UNCHANGED confirm_char
                              ELSE /\ ar' = [ar EXCEPT !.refused = refused]
                                   /\ confirm_char' = PickToken(u)
                                   /\ ar_events' = ar_events \o <<"token", "story2">>
                                   /\ ar_pc' = "story2"
                                   /\ UNCHANGED ar_exc
                       ELSE /\ ar' = [ar EXCEPT !.refused = refused]
                            /\ ar_pc' = "finish"
                            /\ UNCHANGED <<confirm_char, ar_exc, ar_events>>
    /\ UNCHANGED <<active_request, other_done, ux_stack, ar_caller, ar_g2,
                   activate_calls, hsm_active, start_out>>
    /\ UNCHANGED <<digits, phase, test_restart, hsm_ch, pin_calls, hsm_err, hsm_pump, hsm_pc>>

\* lines 62-64: the second story answers
ArStory2 ==
    /\ ar_pc = "story2"
    /\ \E r \in StoryResults :
        /\ ar_g2' = r
        /\ IF r.kind = "key"
             THEN /\ ar' = [ar EXCEPT !.refused = Refused2(r.ch, confirm_char)]
                  /\ UNCHANGED ar_exc
             ELSE /\ ar' = OnException(ar)
                  /\ ar_exc' = "story2"
    /\ ar_pc' = "finish"
    /\ UNCHANGED <<active_request, other_done, ux_stack, ar_caller, ar_g1, confirm_char,
                   ar_events, activate_calls, hsm_active, start_out>>
    /\ UNCHANGED loop_vars

\* UserAuthorizedAction.done(): back to the top menu
Done(stack) == <<"menu">>

\* a slip at line 72: the slot is not cleared before the activation
ArFinish_NoCleanup ==
    /\ ar_pc = "finish"
    /\ ar' = [ar EXCEPT !.ux_done = TRUE]
    /\ IF ar.refused
         THEN /\ ux_stack' = <<"menu">>
              /\ ar_events' = Append(ar_events, "done")
              /\ ar_pc' = "returned"
         ELSE /\ ar_pc' = "activate"
              /\ UNCHANGED <<ux_stack, ar_events>>
    /\ UNCHANGED <<active_request, other_done, ar_caller, ar_g1, ar_g2, confirm_char,
                   ar_exc, activate_calls, hsm_active, start_out>>
    /\ UNCHANGED loop_vars

\* lines 71-77
ArFinish ==
    /\ ar_pc = "finish"
    /\ ar' = [ar EXCEPT !.ux_done = TRUE]
    /\ active_request' = Cleanup
    /\ other_done' = FALSE
    /\ IF ar.refused
         THEN /\ ux_stack' = Done(ux_stack)
              /\ ar_events' = ar_events \o <<"cleanup", "done">>
              /\ ar_pc' = "returned"
         ELSE /\ ar_events' = Append(ar_events, "cleanup")
              /\ ar_pc' = "activate"
              /\ UNCHANGED ux_stack
    /\ UNCHANGED <<ar_caller, ar_g1, ar_g2, confirm_char, ar_exc, activate_calls,
                   hsm_active, start_out>>
    /\ UNCHANGED loop_vars

\* line 80
ArActivate ==
    /\ ar_pc = "activate"
    /\ Len(activate_calls) < MaxActivate
    /\ activate_calls' = Append(activate_calls, ar.new_file)
    /\ hsm_active' = TRUE
    /\ ar_events' = Append(ar_events, "activate")
    /\ ar_pc' = "reset"
    /\ UNCHANGED <<active_request, other_done, ux_stack, ar, ar_caller, ar_g1, ar_g2,
                   confirm_char, ar_exc, start_out>>
    /\ UNCHANGED loop_vars

\* line 81
ArReset ==
    /\ ar_pc = "reset"
    /\ ux_stack' = <<"hsm_ux_obj">>
    /\ ar_events' = Append(ar_events, "reset")
    /\ ar_pc' = "returned"
    /\ UNCHANGED <<active_request, other_done, ar, ar_caller, ar_g1, ar_g2,
                   confirm_char, ar_exc, activate_calls, hsm_active, start_out>>
    /\ UNCHANGED loop_vars

\* lines 77, 83: interact() returns, its locals are gone
ArReturn ==
    /\ ar_pc = "returned"
    /\ ar_pc' = "idle"
    /\ ar_caller' = "ux"
    /\ ar_g1' = NoResult
    /\ ar_g2' = NoResult
    /\ confirm_char' = ""
    /\ ar_exc' = "none"
    /\ ar_events' = <<>>
    /\ hsm_pc' = IF ar_caller = "loop" THEN "top" ELSE hsm_pc
    /\ UNCHANGED <<active_request, other_done, ux_stack, ar, activate_calls,
                   hsm_active, start_out>>
    /\ UNCHANGED <<digits, phase, test_restart, hsm_ch, pin_calls, hsm_err, hsm_pump>>

\* ------------------------------------------------ hsmUxInteraction.interact
\* a slip at line 222: the heartbeat moves two steps
NextPhase_Skip(p) == (p + 2) % CylonLen

\* line 222
NextPhase(p) == (p + 1) % CylonLen

\* a slip at line 334: ux_done is not looked at
ReqLive_IgnoreDone(req, done) == req # "None"

\* line 334
ReqLive(req, done) == req # "None" /\ ~done

\* ux_done of whatever is in the slot
UxDone(req) == IF req = "ar" THEN ar.ux_done ELSE IF req = "other" THEN other_done ELSE FALSE

\* a slip at line 318: off by one
CanAppend_OffByOne(d) == Len(d) <= LOCAL_PIN_LENGTH

\* line 318
CanAppend(d) == Len(d) < LOCAL_PIN_LENGTH

\* line 311
FullPin(d) == Len(d) = LOCAL_PIN_LENGTH

\* line 313, reached only when local_pin_entered returned
AfterPin(d, pin_out) == IF pin_out = "ok" THEN <<>> ELSE d

\* a slip at lines 314-316: the abort key is not eaten and falls into line 317
HandleInput_AbortAppended(d, ch, pin_out) ==
    IF ch = <<"x">>
      THEN [digits |-> <<>>, pin_calls |-> <<>>, err |-> "none"]
    ELSE IF ch = <<"y">>
      THEN IF Len(d) = LOCAL_PIN_LENGTH
             THEN [digits |-> IF pin_out = "ok" THEN <<>> ELSE d, pin_calls |-> <<d>>,
                   err |-> IF pin_out = "ok" THEN "none" ELSE "pin"]
             ELSE [digits |-> d, pin_calls |-> <<>>, err |-> "none"]
    ELSE IF ch # <<>>
      THEN [digits |-> IF Len(d) < LOCAL_PIN_LENGTH THEN Append(d, Head(ch)) ELSE d,
            pin_calls |-> <<>>, err |-> "none"]
    ELSE [digits |-> d, pin_calls |-> <<>>, err |-> "none"]

\* lines 308-320: one polled input is handled
HandleInput(d, ch, pin_out) ==
    IF ch = <<"x">>
      THEN [digits |-> <<>>, pin_calls |-> <<>>, err |-> "none"]
    ELSE IF ch = <<"y">>
      THEN IF FullPin(d)
             THEN [digits |-> AfterPin(d, pin_out), pin_calls |-> <<d>>,
                   err |-> IF pin_out = "ok" THEN "none" ELSE "pin"]
             ELSE [digits |-> d, pin_calls |-> <<>>, err |-> "none"]
    ELSE IF ch = <<ABORT_KEY>>
      THEN [digits |-> d, pin_calls |-> <<>>, err |-> "none"]
    ELSE IF ch # <<>>
      THEN [digits |-> IF CanAppend(d) THEN Append(d, Head(ch)) ELSE d,
            pin_calls |-> <<>>, err |-> "none"]
    ELSE [digits |-> d, pin_calls |-> <<>>, err |-> "none"]

\* a slip at line 323: no continue, the iteration falls through to the pump
AfterInput_FallThrough == "sleep"

\* line 323 and line 330: continue
AfterInput == "top"

\* lines 335-338: what the loop does with the outcome of req.interact()
AfterStep(out) == IF out = "raise" THEN "crashed" ELSE "top"

\* a slip at lines 301-338: the pending action is stepped ahead of the poll
AfterShow_PumpFirst(out) == IF out = "ok" THEN "sleep" ELSE "crashed"

\* line 301, outside the try: what an error in show() does to the loop
AfterShow(out) == IF out = "ok" THEN "poll" ELSE "crashed"

\* the UI driver awaits hsm_ux_obj.interact(): lines 290-299
HsmBegin ==
    /\ hsm_pc = "off"
    /\ ar_pc = "idle"
    /\ Top(ux_stack) = "hsm_ux_obj"
    /\ digits' = <<>>
    /\ test_restart' = FALSE
    /\ hsm_pc' = "top"
    /\ UNCHANGED <<phase, hsm_ch, pin_calls, hsm_err, hsm_pump>>
    /\ UNCHANGED <<active_request, other_done, ux_stack, activate_calls, hsm_active, start_out>>
    /\ UNCHANGED approve_vars

\* lines 300-302: the loop test, then show()
LoopShow ==
    /\ hsm_pc = "top"
    /\ ~test_restart
    /\ \E out \in {"ok", "raise_early", "raise_late"} :
        /\ phase' = IF out = "raise_early" THEN phase ELSE NextPhase(phase)
        /\ hsm_err' = IF out = "ok" THEN "none" ELSE "show"
        /\ hsm_pc' = AfterShow(out)
    /\ hsm_ch' = NoResult
    /\ pin_calls' = <<>>
    /\ hsm_pump' = "none"
    /\ UNCHANGED <<digits, test_restart>>
    /\ UNCHANGED <<active_request, other_done, ux_stack, activate_calls, hsm_active, start_out>>
    /\ UNCHANGED approve_vars

\* lines 304-330: the poll and what is done with its result
LoopPoll ==
    /\ hsm_pc = "poll"
    /\ \E r \in PollResults, pin_out \in {"ok", "raise"} :
        /\ hsm_ch' = r
        /\ CASE r.kind = "empty" ->
                  /\ hsm_pc' = "sleep"
                  /\ UNCHANGED <<digits, pin_calls, hsm_err>>
             [] r.kind = "error" ->
                  /\ hsm_pc' = AfterInput
                  /\ hsm_err' = "poll"
                  /\ UNCHANGED <<digits, pin_calls>>
             [] OTHER ->
                  LET h == HandleInput(digits, r.ch, pin_out)
                  IN /\ digits' = h.digits
                     /\ pin_calls' = h.pin_calls
                     /\ hsm_err' = h.err
                     /\ hsm_pc' = AfterInput
    /\ UNCHANGED <<phase, test_restart, hsm_pump>>
    /\ UNCHANGED <<active_request, other_done, ux_stack, activate_calls, hsm_active, start_out>>
    /\ UNCHANGED approve_vars

\* lines 332-338: after the sleep, one step of the pending action
LoopPump ==
    /\ hsm_pc = "sleep"
    /\ IF ~ReqLive(active_request, UxDone(active_request))
         THEN /\ hsm_pc' = "top"
              /\ hsm_pump' = "idle"
              /\ UNCHANGED <<other_done, hsm_err>>
              /\ UNCHANGED approve_vars
         ELSE IF active_request = "ar"
                THEN /\ \E explain_out \in {"ok", "raise"} : ArEnter("loop", explain_out)
                     /\ hsm_pc' = "inreq"
                     /\ hsm_pump' = "stepped"
                     /\ UNCHANGED <<other_done, hsm_err>>
                ELSE /\ \E out \in {"more", "done", "abort", "raise"} :
                          /\ other_done' = (out = "done")
                          /\ hsm_pump' = IF out \in {"more", "done"} THEN "stepped" ELSE out
                          /\ hsm_err' = IF out \in {"abort", "raise"} THEN "req" ELSE hsm_err
                          /\ hsm_pc' = AfterStep(out)
                     /\ UNCHANGED approve_vars
    /\ UNCHANGED <<digits, phase, test_restart, hsm_ch, pin_calls>>
    /\ UNCHANGED <<active_request, ux_stack, activate_calls, hsm_active, start_out>>

\* lines 340-349: only with test_restart set
LoopExit ==
    /\ hsm_pc = "top"
    /\ test_restart
    /\ hsm_active' = FALSE
    /\ ux_stack' = <<"menu">>
    /\ hsm_pc' = "exited"
    /\ UNCHANGED <<digits, phase, test_restart, hsm_ch, pin_calls, hsm_err, hsm_pump>>
    /\ UNCHANGED <<active_request, other_done, activate_calls, start_out>>
    /\ UNCHANGED approve_vars

\* the simulator's test harness sets the flag while the loop sleeps
SetTestRestart ==
    /\ hsm_pc = "sleep"
    /\ ~test_restart
    /\ test_restart' = TRUE
    /\ UNCHANGED <<hsm_pc, digits, phase, hsm_ch, pin_calls, hsm_err, hsm_pump>>
    /\ UNCHANGED <<active_request, other_done, ux_stack, activate_calls, hsm_active, start_out>>
    /\ UNCHANGED approve_vars

\* the finished controller is put back into the slot while the loop sleeps
ReinstallAr ==
    /\ hsm_pc = "sleep"
    /\ ar.exists
    /\ active_request # "ar"
    /\ active_request' = "ar"
    /\ other_done' = FALSE
    /\ UNCHANGED <<ux_stack, activate_calls, hsm_active, start_out>>
    /\ UNCHANGED approve_vars
    /\ UNCHANGED loop_vars

Next ==
    \/ Start
    \/ InstallOther
    \/ ArBegin
    \/ ArStory1
    \/ ArStory2
    \/ ArFinish
    \/ ArActivate
    \/ ArReset
    \/ ArReturn
    \/ HsmBegin
    \/ LoopShow
    \/ LoopPoll
    \/ LoopPump
    \/ LoopExit
    \/ SetTestRestart
    \/ ReinstallAr

Spec == Init /\ [][Next]_vars

\* the loop is one task of a cooperative scheduler that resumes every task
\* that is ready: a step of the loop that stays possible is taken
LoopStep == HsmBegin \/ LoopShow \/ LoopPoll \/ LoopPump \/ LoopExit

FairSpec == Spec /\ WF_vars(LoopStep) /\ WF_vars(LoopPump)

\* ------------------------------------------------------------------ claims
Has(seq, e) == \E i \in 1..Len(seq) : seq[i] = e
Count(seq, e) == Cardinality({i \in 1..Len(seq) : seq[i] = e})
Pressed(c) == [kind |-> "key", ch |-> <<c>>]
AfterStories == {"finish", "activate", "reset", "returned"}

\* an exception was raised by explain, a story or the token selection
ExceptionRaised == ar_exc # "none" \/ ar_g1.kind = "abort"

\* this call of interact() neither activated the policy nor installed the loop
NotActivated == ~Has(ar_events, "activate") /\ ~Has(ar_events, "reset")

\* C1, as claimed: every exception raised during the presentation steps is
\* recorded in failed and ends refused, without activate and without the reset
\* of the UI to the locked loop.
C1_AnyExceptionRecorded ==
    (ar_pc \in AfterStories /\ ExceptionRaised) =>
        /\ ar.failed = "Exception"
        /\ ar.refused
        /\ NotActivated

\* C1, amended: an exception raised by policy.explain, by the token selection
\* or by the second story, and any exception other than AbortInteraction
\* raised by the first story, is not propagated (interact goes on to its
\* epilogue), is recorded in failed and ends refused with no activate and no
\* reset of the UI; an AbortInteraction raised by the first story is taken as
\* the gesture 'x': it ends refused in the same way, but failed is not set.
C1_FailClosed ==
    /\ ar_exc # "none" =>
          /\ ar_pc \in {"finish", "returned"}
          /\ ar.failed = "Exception"
          /\ ar.refused
          /\ NotActivated
          /\ ar_pc = "returned" => Top(ux_stack) # "hsm_ux_obj"
    /\ (ar_g1.kind = "abort" /\ ar_exc = "none") =>
          /\ ar_pc \in {"finish", "returned"}
          /\ ar.failed = "None"
          /\ ar.refused
          /\ NotActivated
          /\ ar_pc = "returned" => Top(ux_stack) # "hsm_ux_obj"

\* C1 witness: the second story of a new policy raised after the first gesture
\* had cleared refused, and interact() has returned.
C1_Witness ==
    /\ ar_pc = "returned"
    /\ ar.new_file
    /\ ar_exc = "story2"
    /\ ar_g1 = Pressed("y")
    /\ ar.failed = "Exception"

FirstRejected ==
    \/ ar_g1.kind = "abort"
    \/ ar_g1.kind = "key" /\ ar_g1.ch # <<"y">>

\* C2: when the first gesture is a rejection (any key but 'y', or an
\* AbortInteraction), the controller ends refused, activate is not called,
\* the UI is not reset to the locked loop, and done() restores the menu.
C2_RejectFirst ==
    FirstRejected =>
        /\ ar_pc \in {"finish", "returned"}
        /\ ar.refused
        /\ NotActivated
        /\ ~Has(ar_events, "story2")
        /\ ar_pc = "returned" =>
              /\ Has(ar_events, "done")
              /\ ar.ux_done
              /\ Top(ux_stack) = "menu"

\* C2 witness: a new policy whose first story was interrupted has returned.
C2_Witness ==
    /\ ar_pc = "returned"
    /\ ar.new_file
    /\ ar_g1.kind = "abort"
    /\ Has(ar_events, "done")

\* C3: for a new policy accepted with 'y', one token of '12346' is selected,
\* and activate is called exactly when the second story returns that token;
\* every other result of the second story ends refused without activate.
C3_TokenOnly ==
    (ar.new_file /\ ar_g1 = Pressed("y") /\ ar_exc # "token"
        /\ ar_pc \in {"story2"} \cup AfterStories) =>
        /\ confirm_char \in {"1", "2", "3", "4", "6"}
        /\ Count(ar_events, "token") = 1
        /\ Count(ar_events, "story2") = 1
        /\ ar_pc \in AfterStories => (ar.refused <=> ar_g2 # Pressed(confirm_char))
        /\ ar_pc = "returned" =>
              /\ Has(ar_events, "activate") <=> ar_g2 = Pressed(confirm_char)
              /\ Has(ar_events, "reset") <=> ar_g2 = Pressed(confirm_char)
              /\ Has(ar_events, "done") <=> ar_g2 # Pressed(confirm_char)

\* C3 witness: the token was "4", the second story returned "4", and the
\* policy was activated as new.
C3_Witness ==
    /\ ar_pc = "returned"
    /\ ar.new_file
    /\ confirm_char = "4"
    /\ ar_g2 = Pressed("4")
    /\ activate_calls = <<TRUE>>

\* C4: for a persisted policy (new_file = False) one 'y' is enough: no token,
\* no second story, activate(False) is called, and the UI is reset to the
\* locked loop.
C4_SingleGesture ==
    /\ ~ar.new_file => ar_pc # "story2"
    /\ (~ar.new_file /\ ar_g1 = Pressed("y") /\ ar_pc = "returned") =>
          /\ ar_events = <<"explain", "story1", "cleanup", "activate", "reset">>
          /\ ar_g2 = NoResult
          /\ confirm_char = ""
          /\ activate_calls = <<FALSE>>
          /\ ux_stack = <<"hsm_ux_obj">>

\* C4 witness: a persisted policy was approved with the one gesture.
C4_Witness ==
    /\ ar_pc = "returned"
    /\ ~ar.new_file
    /\ ar_g1 = Pressed("y")
    /\ hsm_active

\* C5: after a new policy is approved, activate(True) has been called exactly
\* once, and while the locked loop runs the controller's interact() is not
\* entered again and activate is not called again, also with the finished
\* controller back in the slot.
C5_ActivateOnce ==
    /\ (ar.new_file /\ Has(ar_events, "activate")) => activate_calls = <<TRUE>>
    /\ (ar.new_file /\ hsm_pc # "off") =>
          /\ activate_calls = <<TRUE>>
          /\ ar_pc = "idle"
          /\ hsm_pump # "stepped" \/ active_request # "ar"

\* C5 witness: an iteration of the loop found the finished controller in the
\* slot and did not step it.
C5_Witness ==
    /\ hsm_pc = "top"
    /\ ar.new_file
    /\ active_request = "ar"
    /\ hsm_pump = "idle"
    /\ activate_calls = <<TRUE>>

\* C6, as claimed: once the loop is entered it is never left, and the top
\* menu is never restored, unless test_restart has been set.
C6_OneWay ==
    /\ hsm_pc \in {"crashed", "exited"} => test_restart
    /\ (hsm_pc # "off" /\ Top(ux_stack) = "menu") => test_restart

\* C7, as claimed: no error raised inside an iteration (in show, in the input
\* handling, in the pending action's step) terminates the loop.
C7_ErrorsCaught ==
    hsm_err # "none" => hsm_pc \in {"top", "poll", "sleep"}

\* the pending action in the slot exists and is not done
SlotLive ==
    /\ active_request # "None"
    /\ active_request = "ar" => ~ar.ux_done
    /\ active_request = "other" => ~other_done

C8_AfterSleep ==
    (hsm_pc = "sleep" /\ hsm_pc' # "sleep") =>
        /\ SlotLive <=> hsm_pump' \in {"stepped", "abort", "raise"}
        /\ ~SlotLive => hsm_pump' = "idle"
        /\ hsm_pump' \in {"stepped", "abort", "idle"} => hsm_pc' \in {"top", "inreq"}

C8_NotOnInput ==
    hsm_ch.kind \in {"key", "error"} => hsm_pump = "none" /\ hsm_pc # "sleep"

C9_SubmitThenClear ==
    [][hsm_pc = "poll" =>
          LET confirm == hsm_ch' = Pressed("y")
          IN /\ (confirm /\ Len(digits) = LOCAL_PIN_LENGTH) =>
                    pin_calls' = <<digits>> /\ digits' = <<>>
             /\ ~(confirm /\ Len(digits) = LOCAL_PIN_LENGTH) => pin_calls' = <<>>
             /\ (confirm /\ Len(digits) < LOCAL_PIN_LENGTH) => digits' = digits]_vars

IsDigitKey(r) == r.kind = "key" /\ r.ch \notin {<<>>, <<"x">>, <<"y">>, <<ABORT_KEY>>}

\* C10: the digit buffer never holds more than LOCAL_PIN_LENGTH characters, and
\* an input that arrives while it is full is dropped without an error.
C10_BufferBounded ==
    [][/\ Len(digits) <= LOCAL_PIN_LENGTH
       /\ Len(digits') <= LOCAL_PIN_LENGTH
       /\ (hsm_pc = "poll" /\ Len(digits) = LOCAL_PIN_LENGTH /\ IsDigitKey(hsm_ch')) =>
             /\ digits' = digits
             /\ hsm_err' = "none"
             /\ hsm_pc' = "top"]_vars

\* C10 witness: the buffer is full, ends with "*", and the last input was "1":
\* that input found the buffer full and was dropped.
C10_Witness ==
    /\ hsm_pc = "top"
    /\ Len(digits) = LOCAL_PIN_LENGTH
    /\ digits[LOCAL_PIN_LENGTH] = "*"
    /\ hsm_ch = Pressed("1")
    /\ hsm_err = "none"

\* the step is a call of start_hsm_approval
StartStep == hsm_pc = "off" /\ ~hsm_active /\ Start

\* the step is a call of start_hsm_approval that was handed malformed text
StartMalformed == StartStep /\ start_out'.text \in {"badjson", "badpolicy"}

\* the step is a call of start_hsm_approval that loaded a policy
StartLoaded == StartStep /\ start_out'.text = "valid"

\* C11: for malformed policy text and every usb_mode and startup_mode,
\* start_hsm_approval ends with the parse failure (raised or displayed), the
\* active_request slot is empty also when it was occupied before the call, no
\* controller is created and the UI stack is left as it was.
C11_MalformedNoPending ==
    [][StartMalformed =>
          /\ start_out'.error = "invalid"
          /\ start_out'.outcome \in {"raised", "displayed"}
          /\ start_out'.routed = "none"
          /\ active_request' = "None"
          /\ ar' = ar
          /\ ux_stack' = ux_stack]_vars

\* C11 witness: a call with text that HSMPolicy.load rejects, made with
\* usb_mode and startup_mode set while another request was active, has ended
\* with the slot empty.
C11_Witness ==
    /\ start_out.text = "badpolicy"
    /\ start_out.usb_mode /\ start_out.startup_mode
    /\ start_out.had_request
    /\ start_out.outcome = "raised"
    /\ active_request = "None"

\* C12, as claimed: every load failure (no persisted file, or a parse failure)
\* is displayed and returned from when usb_mode is False, and raised with
\* nothing displayed when usb_mode is True.
C12_FailureByCallerPath ==
    [][(StartStep /\ start_out'.text # "valid") =>
          /\ ~start_out'.usb_mode => start_out'.outcome = "displayed"
          /\ start_out'.usb_mode => start_out'.outcome = "raised"]_vars

\* C13, as claimed: whenever a policy is loaded, for every sf_len, usb_mode and
\* startup_mode, the controller is the active request and is routed into the UI
\* by exactly one of abort_and_goto and the_ux.push.
C13_RoutedExactlyOnce ==
    [][StartLoaded =>
          /\ active_request' = "ar"
          /\ start_out'.routed \in {"goto", "push"}
          /\ (ux_stack' = <<"ar">>) # (ux_stack' = Append(ux_stack, "ar"))]_vars

\* C13, amended: whenever a policy is loaded, the new controller is installed
\* as the sole active request; with startup_mode False it is routed into the UI
\* by exactly one strategy, abort_and_goto when usb_mode is True and
\* the_ux.push when it is False; with startup_mode True it is handed back to
\* the caller and the UI stack is not touched.
C13_RoutedUnlessStartup ==
    [][StartLoaded =>
          /\ active_request' = "ar"
          /\ ar'.exists /\ ~ar'.ux_done
          /\ start_out'.outcome = "returned"
          /\ start_out'.startup_mode => ux_stack' = ux_stack
          /\ (~start_out'.startup_mode /\ start_out'.usb_mode) => ux_stack' = <<"ar">>
          /\ (~start_out'.startup_mode /\ ~start_out'.usb_mode) =>
                ux_stack' = Append(ux_stack, "ar")]_vars

\* C13 witness: a USB call made while another request was active and a
\* controller was already pushed has replaced the whole stack.
C13_Witness ==
    /\ start_out.outcome = "returned"
    /\ start_out.usb_mode /\ ~start_out.startup_mode
    /\ start_out.had_request
    /\ active_request = "ar"
    /\ ux_stack = <<"ar">>

\* the second story was shown exactly when the accepted policy is new
SecondIffNew ==
    /\ Has(ar_events, "story2") => ar.new_file
    /\ (ar_g1 = Pressed("y") /\ ar_exc # "token" /\ ar_pc \in AfterStories /\ ar.new_file)
          => Has(ar_events, "story2")

\* C14: the controller built by start_hsm_approval has new_file = True exactly
\* when the policy was read from a transfer buffer (sf_len > 0), and False when
\* it was read from the policy file; the second story is shown exactly for an
\* accepted controller with new_file = True.
C14_NewIffTransfer ==
    [][/\ StartLoaded => (ar'.new_file <=> start_out'.sf_len > 0)
       /\ SecondIffNew']_vars

\* C14 witness: a policy read from the file gave a controller that is not new.
C14_Witness ==
    /\ start_out.outcome = "returned"
    /\ start_out.sf_len = 0
    /\ ar.exists /\ ~ar.new_file /\ ~ar.ux_done
    /\ active_request = "ar"

\* C15: in every iteration, show() moves the heartbeat index by exactly 1
\* modulo len(cylon), whatever the poll of that iteration returns (an input,
\* nothing, an error of the input handling); nothing else moves it, and it is
\* always an index of the table.
C15_HeartbeatAdvances ==
    [][/\ phase \in 0..(CylonLen - 1)
       /\ phase' \in 0..(CylonLen - 1)
       /\ (hsm_pc = "top" /\ hsm_pc' = "poll") => phase' = (phase + 1) % CylonLen
       /\ hsm_pc' = "poll" => hsm_pc \in {"top", "poll"}
       /\ hsm_pc # "top" => phase' = phase]_vars

\* C15 witness: the index has wrapped around to 0 in an iteration whose input
\* handling raised.
C15_Witness ==
    /\ hsm_pc = "top"
    /\ phase = 0
    /\ hsm_err = "pin"
    /\ hsm_ch = Pressed("y")

Before(seq, a, b) ==
    \E i, j \in 1..Len(seq) : i < j /\ seq[i] = a /\ seq[j] = b

\* C16: on the approved path the slot is cleared, then policy.activate is
\* called, then the UI is reset to the locked loop; the loop is installed only
\* after activate was called with new_file, and when it is installed, and when
\* the loop starts, the slot does not hold the controller.
C16_CleanupActivateReset ==
    /\ Has(ar_events, "activate") => Before(ar_events, "cleanup", "activate")
    /\ Has(ar_events, "reset") =>
          /\ Before(ar_events, "activate", "reset")
          /\ active_request = "None"
    /\ ar_pc \in {"activate", "reset"} => active_request = "None"
    /\ (Top(ux_stack) = "hsm_ux_obj" /\ hsm_pc = "off") =>
          /\ active_request = "None"
          /\ hsm_active
          /\ activate_calls = <<ar.new_file>>
    /\ Top(ux_stack) = "hsm_ux_obj" => activate_calls # <<>>

\* C16 witness: the approval of a new policy, started while the controller was
\* the active request, has installed the loop and the slot is empty.
C16_Witness ==
    /\ ar_pc = "returned"
    /\ ar.new_file
    /\ ar_events = <<"explain", "story1", "token", "story2", "cleanup", "activate", "reset">>
    /\ active_request = "None"
    /\ Top(ux_stack) = "hsm_ux_obj"

\* C17: within an iteration the poll and the handling of its result (the call
\* of local_pin_entered included) are over before the pending action is
\* stepped: the step comes after this iteration's poll and leaves the buffer
\* and the submission alone, and no poll comes after a step of the same
\* iteration.
C17_PollBeforeStep ==
    [][/\ (hsm_pump' # hsm_pump /\ hsm_pump' # "none") =>
             /\ hsm_ch.kind # "none"
             /\ hsm_ch' = hsm_ch
             /\ digits' = digits
             /\ pin_calls' = pin_calls
       /\ (hsm_ch' # hsm_ch /\ hsm_ch'.kind # "none") => hsm_pump = "none"
       /\ hsm_pump' # "none" => hsm_ch'.kind # "none"]_vars

\* C17 witness: an iteration whose poll was empty has stepped the pending
\* action to its end.
C17_Witness ==
    /\ hsm_pc = "top"
    /\ hsm_ch.kind = "empty"
    /\ hsm_pump = "stepped"
    /\ active_request = "other" /\ other_done

\* C19: the abort key polled by the loop is dropped in every state: the buffer
\* is unchanged, local_pin_entered is not called, the slot and the pending
\* action are untouched, no error is raised and the loop goes on.
C19_AbortDiscarded ==
    [][(hsm_pc = "poll" /\ hsm_ch' = Pressed(ABORT_KEY)) =>
          /\ digits' = digits
          /\ pin_calls' = <<>>
          /\ active_request' = active_request
          /\ other_done' = other_done
          /\ ar' = ar
          /\ hsm_err' = "none"
          /\ hsm_pump' = "none"
          /\ test_restart' = test_restart
          /\ hsm_pc' = "top"]_vars

\* C19 witness: the abort key arrived with three characters in the buffer and
\* a pending action in the slot; both are still there.
C19_Witness ==
    /\ hsm_pc = "top"
    /\ hsm_ch = Pressed(ABORT_KEY)
    /\ Len(digits) = 3
    /\ active_request = "other" /\ ~other_done

\* C18, as claimed: in lockdown, a pending action that exists and is not done
\* when the loop polls is eventually stepped by the loop, for every pattern of
\* input arrival.
C18_EventuallyStepped ==
    (hsm_pc = "poll" /\ SlotLive) ~> (hsm_pump \in {"stepped", "abort", "raise"})

DigitChars == {"0", "1", "2", "3", "4", "5", "6", "7", "8", "9"}

\* C20, as claimed: whatever the input source delivers, the buffer holds only
\* the characters '0'-'9'.
C20_OnlyDigits ==
    \A i \in 1..Len(digits) : digits[i] \in DigitChars

====
